---- MODULE Spec2Model ----
(***************************************************************************)
(* Street View scraper (src/scraper.py): the resumable batch fetch, its    *)
(* progress file, the per-request retry logic and the per-address loop.    *)
(* One process runs at a time; it may be terminated at any step and be     *)
(* started again over the same output directory.  The folder-name         *)
(* function _sanitize_filename is also exercised on its own, over bounded  *)
(* input strings, and so is the classification of one response.  The data  *)
(* entry application (src/app.py) is modelled beside it: the per-IP rate   *)
(* limiter and the save handler, with several requests in flight.          *)
(***************************************************************************)
EXTENDS Integers, Sequences, FiniteSets, TLC

(* ------------------------------ bounds -------------------------------- *)

\* Number of invocations of main() over the same output directory.
MaxRuns == 2
\* Rows of the CSV file of one invocation.
MaxTargets == 2
\* Cap of the persisted total_requests counter.
MaxRequests == 3
\* Largest MAX_RETRIES the environment configures.
MaxRetriesCfg == 1
\* Local write failures (IOError) over all runs.
MaxFaults == 1
\* Length of the configured heading list.
NumHeadings == 2
\* Length of the short strings _sanitize_filename is applied to.
MaxAddressLen == 3
\* Requests the data entry application receives when none carries a door.
MaxCalls == 4
\* Requests it receives when they may carry doors.
MaxSaves == 2
\* Doors of one request.
MaxDoors == 2
\* Last instant of the application's clock.
MaxClock == 3
\* RATE_LIMIT_WINDOW_SECONDS of the environment, in clock ticks.
RateLimitWindow == 2
\* RATE_LIMIT_MAX_REQUESTS of the environment.
RateLimitMaxRequests == 2

(* ----------------------------- strings -------------------------------- *)

\* A string is a sequence of one-character strings.
Range(s) == {s[i] : i \in 1..Len(s)}

\* re.sub(r'[...]', '', s): the characters of the class are removed.
RemoveChars(s, bad) == SelectSeq(s, LAMBDA c : c \notin bad)

Whitespace == {" ", "\t"}

\* Positions of s that hold a character other than whitespace.
Inked(s) == {i \in 1..Len(s) : s[i] \notin Whitespace}

LStrip(s) ==
    IF Inked(s) = {} THEN <<>>
    ELSE SubSeq(s, CHOOSE i \in Inked(s) : \A j \in Inked(s) : i <= j, Len(s))

RStrip(s) ==
    IF Inked(s) = {} THEN <<>>
    ELSE SubSeq(s, 1, CHOOSE i \in Inked(s) : \A j \in Inked(s) : j <= i)

Strip(s) == RStrip(LStrip(s))

\* re.sub(r'\s+', '_', s): every maximal run of whitespace becomes one "_"
\* (the first whitespace of a run is replaced, the others are dropped).
CollapseWhitespace(s) ==
    LET replaced == [i \in 1..Len(s) |->
                        IF s[i] \notin Whitespace THEN s[i]
                        ELSE IF i = 1 \/ s[i - 1] \notin Whitespace THEN "_"
                        ELSE ""]
    IN  SelectSeq(replaced, LAMBDA c : c # "")

LowerChar(c) ==
    CASE c = "A" -> "a"
      [] c = "B" -> "b"
      [] c = "C" -> "c"
      [] OTHER -> c

Lower(s) == [i \in 1..Len(s) |-> LowerChar(s[i])]

MaxFilenameLen == 100

\* A sanitizer whose first substitution also removes the underscore.
SanitizeFilenameDropsUnderscore(address) ==
    LET f1 == RemoveChars(address, {"<", ">", ":", "\"", "/", "\\", "|", "?", "*", "_"})
        f2 == RemoveChars(f1, {",", "."})
        f3 == CollapseWhitespace(Strip(f2))
        f4 == Lower(f3)
    IN  IF Len(f4) > MaxFilenameLen THEN SubSeq(f4, 1, MaxFilenameLen) ELSE f4

\* StreetViewScraper._sanitize_filename
SanitizeFilename(address) ==
    LET f1 == RemoveChars(address, {"<", ">", ":", "\"", "/", "\\", "|", "?", "*"})
        f2 == RemoveChars(f1, {",", "."})
        f3 == CollapseWhitespace(Strip(f2))
        f4 == Lower(f3)
    IN  IF Len(f4) > MaxFilenameLen THEN SubSeq(f4, 1, MaxFilenameLen) ELSE f4

\* The full address built from a CSV row (scrape_property, scrape_from_csv).
FullAddress(t) ==
    t.address
      \o (IF t.city # <<>> THEN <<",", " ">> \o t.city ELSE <<>>)
      \o (IF t.state # <<>> THEN <<",", " ">> \o t.state ELSE <<>>)
      \o (IF t.zip # <<>> THEN <<" ">> \o t.zip ELSE <<>>)


(* --------------------------- configuration ---------------------------- *)

\* HEADINGS, default '0,90,180,270'; a run is configured with the first
\* NumHeadings of them.
DefaultHeadings == <<0, 90, 180, 270>>
Headings == SubSeq(DefaultHeadings, 1, NumHeadings)

\* The CSV rows a run may be given (fields already stripped).
\* T1 is "1 A" in "b."; T2 has an empty address field and the city "C".
T1 == [address |-> <<"1", " ", "A">>, city |-> <<"b", ".">>, state |-> <<>>, zip |-> <<>>]
T2 == [address |-> <<>>, city |-> <<"C">>, state |-> <<>>, zip |-> <<>>]
TargetSet == {T1, T2}

\* The folder name (the progress key) of each row.
FolderNames == [t \in TargetSet |-> SanitizeFilename(FullAddress(t))]
FolderName(t) == FolderNames[t]

TargetLists == UNION {[1..n -> TargetSet] : n \in 0..MaxTargets}

\* What requests.get does: raise a RequestException, or return a response.
Responses ==
    {[exc |-> TRUE, status |-> 0, is_image |-> FALSE, size |-> 0]}
      \cup [exc : {FALSE}, status : {200, 500}, is_image : BOOLEAN, size : {1000, 1001}]

(* ------------------------------- state -------------------------------- *)

VARIABLES
    faults,              \* IOErrors raised by the file system so far
    pc,                  \* position of the process ("idle": no process)
    runs,                \* invocations of main() so far
    exit_code,           \* result of the last finished invocation
    output_dir_exists,   \* the output directory on disk
    progress_file,       \* scraping_progress.json on disk
    folders,             \* per-address directories on disk
    metadata_files,      \* metadata.json of each directory on disk
    progress_data,       \* self.progress_data
    max_retries,         \* self.max_retries, MAX_RETRIES of the environment
    addresses,           \* rows read from the CSV file
    remaining_addresses, \* rows kept by the filter of scrape_from_csv
    idx,                 \* position of the batch loop in remaining_addresses
    heading_idx,         \* position of the heading loop in Headings
    retry_count,         \* retry_count of the current _make_request call
    image_data,          \* what _make_request returned: TRUE for bytes, FALSE for None
    successful_images,   \* headings whose file name was appended to successful_images
    metadata,            \* the metadata dictionary of the current address
    start_file,          \* history: the progress file as this run found it
    requested,           \* history: folder names a request was issued for in this run
    attempts,            \* history: requests issued for the current heading
    last_outcome,        \* history: outcome of the last request of the current heading
    saved_now,           \* history: headings whose image file this processing wrote
    tried,               \* history: headings requested for the current address, in order
    api_key,             \* whether the last invocation was given an API key
    error,               \* the error the last invocation of main() printed
    slept,               \* waits since the last request, in units of rate_limit_delay
    san_pc,              \* _sanitize_filename on its own: "off", "input", "key", "rekey"
    san_address,         \* the string _sanitize_filename is applied to
    san_key,             \* _sanitize_filename(san_address)
    san_rekey,           \* _sanitize_filename(san_key)
    cls_pc,              \* the classification on its own: "off", "input", "done"
    cls_response,        \* the response (or exception) of one requests.get
    cls_outcome,         \* how _make_request classified it
    clock,               \* app: what time() and time.time() return
    requests_log,        \* app: _requests_log, ip -> timestamps
    garage_doors,        \* app: the entries stored in DATA_FILE
    handler,             \* app: the requests being handled, one thread each
    admitted             \* history: timestamps of the calls _rate_limited admitted, per ip

scraper == <<faults, pc, runs, exit_code, output_dir_exists, progress_file, folders,
             metadata_files, progress_data, max_retries, addresses,
             remaining_addresses, idx, heading_idx, retry_count, image_data,
             successful_images, metadata, start_file, requested, attempts,
             last_outcome, saved_now, tried, api_key, error, slept>>
sanitizer == <<san_pc, san_address, san_key, san_rekey>>
classifier == <<cls_pc, cls_response, cls_outcome>>
app == <<clock, requests_log, garage_doors, handler, admitted>>
\* What the scraper never touches.
others == <<sanitizer, classifier, app>>
vars == <<scraper, others>>

disk == <<output_dir_exists, progress_file, folders, metadata_files>>
locals == <<heading_idx, retry_count, image_data, successful_images, metadata>>
history == <<start_file, requested, attempts, last_outcome, saved_now, tried>>

\* The dictionary _load_progress returns when there is nothing to load.
FreshProgress ==
    [completed |-> <<>>, failed |-> <<>>, last_updated |-> 0,
     total_requests |-> 0, successful_requests |-> 0]

NoMetadata == [folder_name |-> <<>>, headings_successful |-> <<>>]

MissingFile == [state |-> "missing", data |-> FreshProgress]
CorruptFile == [state |-> "corrupt", data |-> FreshProgress]
IntactFile(d) == [state |-> "ok", data |-> d]

\* metadata.json of one directory: absent, unparsable, or holding a record.
NoMetadataFile == [state |-> "none", headings_successful |-> <<>>]
CorruptMetadataFile == [state |-> "corrupt", headings_successful |-> <<>>]

\* exit_code while a process runs or after it was killed.
NoExit == -1

Keys == {FolderName(t) : t \in TargetSet}

ScraperInit ==
    /\ faults = 0
    /\ pc = "idle"
    /\ runs = 0
    /\ exit_code = NoExit
    /\ output_dir_exists = FALSE
    /\ progress_file = MissingFile
    /\ folders = {}
    /\ metadata_files = [k \in Keys |-> NoMetadataFile]
    /\ progress_data = FreshProgress
    /\ max_retries \in 0..MaxRetriesCfg
    /\ addresses = <<>>
    /\ remaining_addresses = <<>>
    /\ idx = 0
    /\ heading_idx = 0
    /\ retry_count = 0
    /\ image_data = FALSE
    /\ successful_images = <<>>
    /\ metadata = NoMetadata
    /\ start_file = MissingFile
    /\ requested = {}
    /\ attempts = 0
    /\ last_outcome = "none"
    /\ saved_now = {}
    /\ tried = <<>>
    /\ api_key = FALSE
    /\ error = "none"
    /\ slept = 0

NoResponse == [exc |-> TRUE, status |-> 0, is_image |-> FALSE, size |-> 0]

SanitizerOff ==
    /\ san_pc = "off"
    /\ san_address = <<>>
    /\ san_key = <<>>
    /\ san_rekey = <<>>

ClassifierOff ==
    /\ cls_pc = "off"
    /\ cls_response = NoResponse
    /\ cls_outcome = "none"

\* Client addresses.
IPs == {"ip1", "ip2"}

\* A request that has not arrived.
NewHandler ==
    [pc |-> "new", ip |-> "ip1", now |-> 0, doors |-> 0, door |-> 0,
     local |-> <<>>, status |-> 0]

\* The application after start: nothing logged, nothing stored.
AppInit ==
    /\ clock = 0
    /\ requests_log = [ip \in IPs |-> <<>>]
    /\ garage_doors = <<>>
    /\ handler = [r \in 1..MaxCalls |-> NewHandler]
    /\ admitted = [ip \in IPs |-> <<>>]

Init ==
    /\ ScraperInit
    /\ SanitizerOff
    /\ ClassifierOff
    /\ AppInit

(* ------------------------------ helpers ------------------------------- *)

\* A load that ignores the file.
LoadProgressIgnoresFile(f) == FreshProgress

\* StreetViewScraper._load_progress: the file's content when it exists and
\* parses, the fresh dictionary otherwise.
LoadProgress(f) == IF f.state = "ok" THEN f.data ELSE FreshProgress

\* A filter that also drops the rows recorded failed.
RemainingAddressesSkipsFailed(rows, progress) ==
    SelectSeq(rows, LAMBDA t : FolderName(t) \notin
                                 Range(progress.completed) \cup Range(progress.failed))

\* The filter of scrape_from_csv: rows whose folder name is not completed.
RemainingAddresses(rows, progress) ==
    SelectSeq(rows, LAMBDA t : FolderName(t) \notin Range(progress.completed))

\* A skip test that looks at the failed list.
AlreadyCompletedChecksFailed(folder_name, progress) ==
    folder_name \in Range(progress.failed)

\* A skip test that never skips.
AlreadyCompletedNever(folder_name, progress) == FALSE

\* The test at the head of scrape_property.
AlreadyCompleted(folder_name, progress) ==
    folder_name \in Range(progress.completed)

\* The length a response body has to exceed: len(response.content) > 1000.
ImageSizeFloor == 1000

\* A classification that accepts a body of exactly ImageSizeFloor bytes.
ClassifyAcceptsFloor(resp) ==
    IF resp.exc THEN "network_error"
    ELSE IF resp.status = 200
         THEN IF resp.is_image /\ resp.size >= ImageSizeFloor
              THEN "success" ELSE "no_imagery"
         ELSE "api_error"

\* Outcome of one requests.get, as _make_request tells them apart.
Classify(resp) ==
    IF resp.exc THEN "network_error"
    ELSE IF resp.status = 200
         THEN IF resp.is_image /\ resp.size > ImageSizeFloor
              THEN "success" ELSE "no_imagery"
         ELSE "api_error"

\* Whether the attempt reaches the line that counts it: the increment of
\* total_requests follows requests.get inside the try block.
CountsRequest(resp) == ~resp.exc

\* A retry test that allows one retry too many.
RetryAllowedOffByOne(count, limit) == count <= limit

\* The retry test of _make_request.
RetryAllowed(count, limit) == count < limit

\* Every failure falls through to the retry logic (the early return is missing).
FallsToRetryAnyFailure(outcome) == outcome # "success"

\* Whether an outcome falls through to the retry logic.
FallsToRetry(outcome) == outcome \in {"api_error", "network_error"}

\* An update that completes an address only when every heading was saved.
UpdateProgressAllOrNothing(progress, folder_name, images) ==
    IF Len(images) = Len(Headings)
    THEN [progress EXCEPT !.completed = Append(@, folder_name)]
    ELSE [progress EXCEPT !.failed = Append(@, folder_name)]

\* The progress update at the end of scrape_property.
UpdateProgress(progress, folder_name, images) ==
    IF images # <<>>
    THEN [progress EXCEPT !.completed = Append(@, folder_name)]
    ELSE [progress EXCEPT !.failed = Append(@, folder_name)]

\* Whether scrape_property writes metadata.json for these results.
WritesMetadata(images) == TRUE

\* A progress update that is saved only for an address with images.
SavesAfterMarkOnlyOnSuccess(images) == images # <<>>

\* Whether scrape_property calls _save_progress after the progress update.
SavesAfterMark(images) == TRUE

\* An image that is listed although its file could not be written.
ImageListedDespiteWriteError(image, write_ok) == image

\* Whether a heading is appended to successful_images and the metadata:
\* _make_request returned bytes and the file was written without IOError.
ImageListed(image, write_ok) == image /\ write_ok

\* A retry without backoff.
RetryDelayNone(count) == 0

\* The sleep before a retry, in units of rate_limit_delay.
RetryDelay(count) == count + 1

\* The sleep after each heading, in units of rate_limit_delay.
HeadingDelay == 1

\* A number num / den, den > 0 (the floats of the summary, kept exact).
Ratio(num, den) == [num |-> num, den |-> den]

\* A summary whose success_rate is the plain quotient.
GetSummaryPlainQuotient(progress) ==
    [total_completed |-> Len(progress.completed),
     total_failed |-> Len(progress.failed),
     total_requests |-> progress.total_requests,
     successful_requests |-> progress.successful_requests,
     success_rate |-> IF progress.total_requests > 0
                      THEN Ratio(progress.successful_requests, progress.total_requests)
                      ELSE Ratio(0, 1),
     last_updated |-> progress.last_updated]

\* StreetViewScraper._get_summary; success_rate is
\* successful_requests / total_requests * 100.
GetSummary(progress) ==
    [total_completed |-> Len(progress.completed),
     total_failed |-> Len(progress.failed),
     total_requests |-> progress.total_requests,
     successful_requests |-> progress.successful_requests,
     success_rate |-> IF progress.total_requests > 0
                      THEN Ratio(progress.successful_requests * 100, progress.total_requests)
                      ELSE Ratio(0, 1),
     last_updated |-> progress.last_updated]

\* A credential check that is never made.
KeyMissingNeverChecked(has_key) == FALSE

\* The credential check of main(): `if not api_key`.
KeyMissing(has_key) == ~has_key

\* A load without the except clause: an unparsable file raises to main().
LoadRaisesOnCorrupt(f) == f.state = "corrupt"

\* Whether _load_progress raises: JSONDecodeError and IOError are caught.
LoadRaises(f) == FALSE

\* A heading loop that ends at the first heading without an image.
MoreHeadingsStopsOnFailure(i, image) == image /\ i < Len(Headings)

\* Whether the heading loop of scrape_property goes on after heading i,
\* whose _make_request returned image.
MoreHeadings(i, image) == i < Len(Headings)

\* A retry that passes retry_count on unchanged.
NextRetryCountSame(count) == count

\* The retry_count of the recursive call of _make_request.
NextRetryCount(count) == count + 1

CurrentFolder == FolderName(remaining_addresses[idx])

\* The memory of a process that does not run.
NoProcess ==
    /\ progress_data' = FreshProgress
    /\ addresses' = <<>>
    /\ remaining_addresses' = <<>>
    /\ idx' = 0
    /\ heading_idx' = 0
    /\ retry_count' = 0
    /\ image_data' = FALSE
    /\ successful_images' = <<>>
    /\ metadata' = NoMetadata
    /\ start_file' = MissingFile
    /\ requested' = {}
    /\ attempts' = 0
    /\ last_outcome' = "none"
    /\ saved_now' = {}
    /\ tried' = <<>>
    /\ slept' = 0

\* A batch loop that ends at the first address without an image.
NextAddressStopsOnFailure ==
    /\ IF idx < Len(remaining_addresses) /\ successful_images # <<>>
       THEN pc' = "scrape_property" /\ idx' = idx + 1
       ELSE pc' = "summary" /\ idx' = idx
    /\ heading_idx' = 0
    /\ retry_count' = 0
    /\ image_data' = FALSE
    /\ successful_images' = <<>>
    /\ metadata' = NoMetadata
    /\ attempts' = 0
    /\ last_outcome' = "none"
    /\ saved_now' = {}
    /\ tried' = <<>>
    /\ UNCHANGED slept

\* scrape_property returned: the batch loop takes the next row or ends.
NextAddress ==
    /\ IF idx < Len(remaining_addresses)
       THEN pc' = "scrape_property" /\ idx' = idx + 1
       ELSE pc' = "summary" /\ idx' = idx
    /\ heading_idx' = 0
    /\ retry_count' = 0
    /\ image_data' = FALSE
    /\ successful_images' = <<>>
    /\ metadata' = NoMetadata
    /\ attempts' = 0
    /\ last_outcome' = "none"
    /\ saved_now' = {}
    /\ tried' = <<>>
    /\ UNCHANGED slept

(* ------------------------------ actions ------------------------------- *)

\* main(): the credential check, __init__ (output directory, progress load) and
\* scrape_from_csv up to the start of the batch loop.
Main(has_key, rows) ==
    /\ pc = "idle"
    /\ runs < MaxRuns
    /\ runs' = runs + 1
    /\ api_key' = has_key
    /\ UNCHANGED <<faults, max_retries, others>>
    /\ IF KeyMissing(has_key)
       THEN /\ exit_code' = 1
            /\ error' = "api_key_required"
            /\ pc' = "idle"
            /\ UNCHANGED disk
            /\ NoProcess
       ELSE /\ output_dir_exists' = TRUE
            /\ UNCHANGED <<progress_file, folders, metadata_files>>
            /\ IF LoadRaises(progress_file)
               THEN /\ exit_code' = 1
                    /\ error' = "exception"
                    /\ pc' = "idle"
                    /\ NoProcess
               ELSE IF rows = <<>>
               THEN /\ exit_code' = 1
                    /\ error' = "no_addresses"
                    /\ pc' = "idle"
                    /\ NoProcess
               ELSE LET progress == LoadProgress(progress_file)
                        remaining == RemainingAddresses(rows, progress)
                    IN  /\ exit_code' = NoExit
                        /\ error' = "none"
                        /\ progress_data' = progress
                        /\ start_file' = progress_file
                        /\ addresses' = rows
                        /\ remaining_addresses' = remaining
                        /\ requested' = {}
                        /\ IF remaining = <<>>
                           THEN pc' = "summary" /\ idx' = 0
                           ELSE pc' = "scrape_property" /\ idx' = 1
                        /\ UNCHANGED <<locals, attempts, last_outcome, saved_now, tried,
                                       slept>>

\* scrape_property up to the heading loop: the skip test, the folder, the locals.
ScrapeProperty ==
    /\ pc = "scrape_property"
    /\ UNCHANGED <<faults, runs, exit_code, output_dir_exists, progress_file,
                   metadata_files, progress_data, max_retries, addresses,
                   remaining_addresses, start_file, requested, api_key, error,
                   others>>
    /\ IF AlreadyCompleted(CurrentFolder, progress_data)
       THEN /\ NextAddress
            /\ UNCHANGED folders
       ELSE /\ folders' = folders \cup {CurrentFolder}
            /\ successful_images' = <<>>
            /\ metadata' = [folder_name |-> CurrentFolder, headings_successful |-> <<>>]
            /\ heading_idx' = 1
            /\ retry_count' = 0
            /\ image_data' = FALSE
            /\ attempts' = 0
            /\ last_outcome' = "none"
            /\ saved_now' = {}
            /\ tried' = <<>>
            /\ pc' = "make_request"
            /\ UNCHANGED <<idx, slept>>

\* One attempt of _make_request: the request, the counters, and either the
\* return or the recursive call with retry_count + 1.
MakeRequest(resp) ==
    /\ pc = "make_request"
    /\ progress_data.total_requests < MaxRequests
    /\ LET outcome == Classify(resp)
       IN  /\ progress_data' =
                [progress_data EXCEPT
                   !.total_requests = IF CountsRequest(resp) THEN @ + 1 ELSE @,
                   !.successful_requests = IF outcome = "success" THEN @ + 1 ELSE @]
           /\ attempts' = attempts + 1
           /\ last_outcome' = outcome
           /\ requested' = requested \cup {CurrentFolder}
           /\ tried' = IF attempts = 0 THEN Append(tried, Headings[heading_idx]) ELSE tried
           /\ IF FallsToRetry(outcome) /\ RetryAllowed(retry_count, max_retries)
              THEN /\ slept' = RetryDelay(retry_count)
                   /\ retry_count' = NextRetryCount(retry_count)
                   /\ pc' = "make_request"
                   /\ UNCHANGED image_data
              ELSE /\ slept' = 0
                   /\ image_data' = (outcome = "success")
                   /\ pc' = "save_image"
                   /\ UNCHANGED retry_count
    /\ UNCHANGED <<faults, runs, exit_code, disk, max_retries, addresses,
                   remaining_addresses, idx, heading_idx, successful_images, metadata,
                   start_file, saved_now, api_key, error, others>>

\* The rest of one heading: the image file and the lists, then the next heading.
SaveImage(write_ok) ==
    /\ pc = "save_image"
    /\ write_ok \/ (image_data /\ faults < MaxFaults)
    /\ faults' = IF write_ok THEN faults ELSE faults + 1
    /\ IF ImageListed(image_data, write_ok)
       THEN /\ successful_images' = Append(successful_images, Headings[heading_idx])
            /\ metadata' = [metadata EXCEPT
                              !.headings_successful = Append(@, Headings[heading_idx])]
       ELSE UNCHANGED <<successful_images, metadata>>
    /\ saved_now' = IF image_data /\ write_ok
                    THEN saved_now \cup {Headings[heading_idx]} ELSE saved_now
    /\ slept' = HeadingDelay
    /\ IF MoreHeadings(heading_idx, image_data)
       THEN /\ heading_idx' = heading_idx + 1
            /\ retry_count' = 0
            /\ image_data' = FALSE
            /\ attempts' = 0
            /\ last_outcome' = "none"
            /\ pc' = "make_request"
       ELSE /\ pc' = "save_metadata"
            /\ UNCHANGED <<heading_idx, retry_count, image_data, attempts, last_outcome>>
    /\ UNCHANGED <<runs, exit_code, disk, progress_data, max_retries, addresses,
                   remaining_addresses, idx, start_file, requested, tried, api_key,
                   error, others>>

\* The metadata file of scrape_property: "ok", or an IOError when opening
\* ("open_failed") or while writing ("write_failed").
SaveMetadata(result) ==
    /\ pc = "save_metadata"
    /\ result = "ok" \/ faults < MaxFaults
    /\ faults' = IF result = "ok" THEN faults ELSE faults + 1
    /\ IF WritesMetadata(successful_images)
       THEN metadata_files' =
              [metadata_files EXCEPT ![CurrentFolder] =
                 CASE result = "ok" ->
                        [state |-> "ok", headings_successful |-> metadata.headings_successful]
                   [] result = "open_failed" -> @
                   [] OTHER -> CorruptMetadataFile]
       ELSE result = "ok" /\ UNCHANGED metadata_files
    /\ pc' = "update_progress"
    /\ UNCHANGED <<runs, exit_code, output_dir_exists, progress_file, folders,
                   progress_data, max_retries, addresses, remaining_addresses, idx,
                   locals, history, api_key, error, slept, others>>

\* The progress update of scrape_property; _save_progress follows.
MarkProgress ==
    /\ pc = "update_progress"
    /\ progress_data' = UpdateProgress(progress_data, CurrentFolder, successful_images)
    /\ IF SavesAfterMark(successful_images)
       THEN /\ pc' = "save_progress"
            /\ UNCHANGED <<idx, locals, attempts, last_outcome, saved_now, tried, slept>>
       ELSE NextAddress
    /\ UNCHANGED <<faults, runs, exit_code, disk, max_retries, addresses, remaining_addresses,
                   start_file, requested, api_key, error, others>>

\* _save_progress, first half: last_updated and open(progress_file, 'w'), which
\* empties the file; an IOError leaves the file as it was and ends the save.
SaveProgressOpen(ok) ==
    /\ pc = "save_progress"
    /\ ok \/ faults < MaxFaults
    /\ faults' = IF ok THEN faults ELSE faults + 1
    /\ progress_data' = [progress_data EXCEPT !.last_updated = runs]
    /\ IF ok
       THEN /\ progress_file' = CorruptFile
            /\ pc' = "dump_progress"
            /\ UNCHANGED <<idx, locals, attempts, last_outcome, saved_now, tried, slept>>
       ELSE /\ UNCHANGED progress_file
            /\ NextAddress
    /\ UNCHANGED <<runs, exit_code, output_dir_exists, folders, metadata_files,
                   max_retries, addresses, remaining_addresses, start_file, requested,
                   api_key, error, others>>

\* _save_progress, second half: json.dump and close; an IOError leaves a
\* partial file.  scrape_property then returns.
SaveProgressDump(ok) ==
    /\ pc = "dump_progress"
    /\ ok \/ faults < MaxFaults
    /\ faults' = IF ok THEN faults ELSE faults + 1
    /\ progress_file' = IF ok THEN IntactFile(progress_data) ELSE CorruptFile
    /\ NextAddress
    /\ UNCHANGED <<runs, exit_code, output_dir_exists, folders, metadata_files,
                   progress_data, max_retries, addresses, remaining_addresses,
                   start_file, requested, api_key, error, others>>

\* scrape_from_csv returns the summary, main prints it and returns 0.
Exit ==
    /\ pc = "summary"
    /\ pc' = "idle"
    /\ exit_code' = 0
    /\ NoProcess
    /\ UNCHANGED <<faults, runs, disk, max_retries, api_key, error, others>>

\* The process is terminated; the disk stays as it is.
Crash ==
    /\ pc # "idle"
    /\ pc' = "idle"
    /\ exit_code' = NoExit
    /\ NoProcess
    /\ UNCHANGED <<faults, runs, disk, max_retries, api_key, error, others>>

Next ==
    \/ \E has_key \in BOOLEAN, rows \in TargetLists : Main(has_key, rows)
    \/ ScrapeProperty
    \/ \E resp \in Responses : MakeRequest(resp)
    \/ \E write_ok \in BOOLEAN : SaveImage(write_ok)
    \/ \E result \in {"ok", "open_failed", "write_failed"} : SaveMetadata(result)
    \/ MarkProgress
    \/ \E ok \in BOOLEAN : SaveProgressOpen(ok)
    \/ \E ok \in BOOLEAN : SaveProgressDump(ok)
    \/ Exit
    \/ Crash

Spec == Init /\ [][Next]_vars

\* A step of the running process (every action but the start and the kill).
ProcessStep ==
    \/ ScrapeProperty
    \/ \E resp \in Responses : MakeRequest(resp)
    \/ \E write_ok \in BOOLEAN : SaveImage(write_ok)
    \/ \E result \in {"ok", "open_failed", "write_failed"} : SaveMetadata(result)
    \/ MarkProgress
    \/ \E ok \in BOOLEAN : SaveProgressOpen(ok)
    \/ \E ok \in BOOLEAN : SaveProgressDump(ok)
    \/ Exit

(* ------------------- _sanitize_filename on its own -------------------- *)

\* Characters of the input strings: letters, a digit, whitespace, characters
\* the substitutions remove, and characters they do not mention.
AddressChars == {"A", "b", "1", " ", ",", "/", "#", "_"}

ShortAddresses == UNION {[1..n -> AddressChars] : n \in 0..MaxAddressLen}

\* The string s written n times.
Repeat(s, n) == [i \in 1..(n * Len(s)) |-> s[((i - 1) % Len(s)) + 1]]

\* Strings longer than the truncation length.
LongAddresses ==
    {Repeat(s, MaxFilenameLen + 1) : s \in {t \in ShortAddresses : Len(t) \in 1..2}}

SanitizeInputs == ShortAddresses \cup LongAddresses

SanitizeInit ==
    /\ ScraperInit
    /\ ClassifierOff
    /\ AppInit
    /\ san_pc = "input"
    /\ san_address \in SanitizeInputs
    /\ san_key = <<>>
    /\ san_rekey = <<>>

\* folder_name = self._sanitize_filename(full_address)
Sanitize ==
    /\ san_pc = "input"
    /\ san_key' = SanitizeFilename(san_address)
    /\ san_pc' = "key"
    /\ UNCHANGED <<scraper, classifier, app, san_address, san_rekey>>

\* _sanitize_filename applied to a folder name it returned.
SanitizeAgain ==
    /\ san_pc = "key"
    /\ san_rekey' = SanitizeFilename(san_key)
    /\ san_pc' = "rekey"
    /\ UNCHANGED <<scraper, classifier, app, san_address, san_key>>

SanitizeNext == Sanitize \/ SanitizeAgain

SanitizeSpec == SanitizeInit /\ [][SanitizeNext]_vars

(* --------------------- the classification on its own ------------------ *)

\* Status codes, content types and body lengths around the accepted ones.
ClassifyInputs ==
    {NoResponse}
      \cup [exc : {FALSE}, status : {200, 403, 404, 500}, is_image : BOOLEAN,
            size : {0, ImageSizeFloor - 1, ImageSizeFloor, ImageSizeFloor + 1,
                    2 * ImageSizeFloor}]

ClassifyInit ==
    /\ ScraperInit
    /\ SanitizerOff
    /\ AppInit
    /\ cls_pc = "input"
    /\ cls_response \in ClassifyInputs
    /\ cls_outcome = "none"

\* The try block of _make_request on one response.
ClassifyResponse ==
    /\ cls_pc = "input"
    /\ cls_outcome' = Classify(cls_response)
    /\ cls_pc' = "done"
    /\ UNCHANGED <<scraper, sanitizer, app, cls_response>>

ClassifyNext == ClassifyResponse

ClassifySpec == ClassifyInit /\ [][ClassifyNext]_vars

(* ------------------- the data entry application ----------------------- *)

\* while dq and dq[0] < window_start: dq.popleft()
RECURSIVE DropOld(_, _)
DropOld(dq, window_start) ==
    IF dq # <<>> /\ Head(dq) < window_start
    THEN DropOld(Tail(dq), window_start) ELSE dq

\* A request that has been answered: the thread's locals are gone, the
\* status and the number of doors it carried remain.
Answered(h, status) ==
    [NewHandler EXCEPT !.pc = "done", !.doors = h.doors, !.status = status]

\* generate_entry_id: "garage_" and the clock in milliseconds.
GenerateEntryId(t) == <<"garage", t>>

\* The clock advances.
Tick ==
    /\ clock < MaxClock
    /\ clock' = clock + 1
    /\ UNCHANGED <<scraper, sanitizer, classifier, requests_log, garage_doors,
                   handler, admitted>>

\* save_garage_door is entered for a request of ip with so many doors;
\* _rate_limited reads the clock before it takes the lock.
Arrive(r, ip, doors) ==
    /\ handler[r].pc = "new"
    /\ \A q \in 1..(r - 1) : handler[q].pc # "new"
    /\ handler' = [handler EXCEPT ![r] =
                      [@ EXCEPT !.pc = "rate_limit", !.ip = ip, !.now = clock,
                                !.doors = doors]]
    /\ UNCHANGED <<scraper, sanitizer, classifier, clock, requests_log, garage_doors,
                   admitted>>

\* The locked section of _rate_limited, then the validation of the request.
RateLimited(r) ==
    /\ handler[r].pc = "rate_limit"
    /\ LET h == handler[r]
           dq == DropOld(requests_log[h.ip], h.now - RateLimitWindow)
       IN  IF Len(dq) >= RateLimitMaxRequests
           THEN /\ requests_log' = [requests_log EXCEPT ![h.ip] = dq]
                /\ handler' = [handler EXCEPT ![r] = Answered(h, 429)]
                /\ UNCHANGED admitted
           ELSE /\ requests_log' = [requests_log EXCEPT ![h.ip] = Append(dq, h.now)]
                /\ admitted' = [admitted EXCEPT ![h.ip] = Append(@, h.now)]
                /\ handler' = [handler EXCEPT ![r] =
                                  IF h.doors = 0
                                  THEN Answered(h, 400)
                                  ELSE [@ EXCEPT !.pc = "load"]]
    /\ UNCHANGED <<scraper, sanitizer, classifier, clock, garage_doors>>

\* garage_doors = load_garage_doors()
LoadGarageDoors(r) ==
    /\ handler[r].pc = "load"
    /\ handler' = [handler EXCEPT ![r] =
                      [@ EXCEPT !.pc = "append", !.local = garage_doors, !.door = 1]]
    /\ UNCHANGED <<scraper, sanitizer, classifier, clock, requests_log, garage_doors,
                   admitted>>

\* One turn of the loop over the doors: an entry with a generated id is
\* appended to the loaded list.
AppendDoor(r) ==
    /\ handler[r].pc = "append"
    /\ LET h == handler[r]
           entry == [id |-> GenerateEntryId(clock), request |-> r, door |-> h.door]
       IN  handler' = [handler EXCEPT ![r] =
                         [@ EXCEPT !.local = Append(@, entry),
                                   !.door = IF h.door < h.doors THEN h.door + 1 ELSE h.door,
                                   !.pc = IF h.door < h.doors THEN "append" ELSE "save"]]
    /\ UNCHANGED <<scraper, sanitizer, classifier, clock, requests_log, garage_doors,
                   admitted>>

\* save_garage_doors(garage_doors) and the response.
SaveGarageDoors(r, ok) ==
    /\ handler[r].pc = "save"
    /\ garage_doors' = IF ok THEN handler[r].local ELSE garage_doors
    /\ handler' = [handler EXCEPT ![r] = Answered(@, IF ok THEN 200 ELSE 500)]
    /\ UNCHANGED <<scraper, sanitizer, classifier, clock, requests_log, admitted>>

\* The application beside a scraper that is never started.
AppSpecInit == Init /\ max_retries = 0

\* Requests without doors: each passes _rate_limited and is then answered 400.
LimiterNext ==
    \/ Tick
    \/ \E r \in 1..MaxCalls, ip \in IPs : Arrive(r, ip, 0)
    \/ \E r \in 1..MaxCalls : RateLimited(r)

LimiterSpec == AppSpecInit /\ [][LimiterNext]_vars

\* Requests with or without doors, handled concurrently.
SaveNext ==
    \/ Tick
    \/ \E r \in 1..MaxSaves, ip \in IPs, doors \in 0..MaxDoors : Arrive(r, ip, doors)
    \/ \E r \in 1..MaxSaves : RateLimited(r)
    \/ \E r \in 1..MaxSaves : LoadGarageDoors(r)
    \/ \E r \in 1..MaxSaves : AppendDoor(r)
    \/ \E r \in 1..MaxSaves, ok \in BOOLEAN : SaveGarageDoors(r, ok)

SaveSpec == AppSpecInit /\ [][SaveNext]_vars

(* ------------------------------ properties ---------------------------- *)

\* What a process starting now would find recorded in file f.
CompletedOnDisk(f) == IF f.state = "ok" THEN Range(f.data.completed) ELSE {}
FailedOnDisk(f) == IF f.state = "ok" THEN Range(f.data.failed) ELSE {}
RequestsOnDisk(f) == IF f.state = "ok" THEN f.data.total_requests ELSE 0

Count(x, s) == Cardinality({i \in 1..Len(s) : s[i] = x})

Running == pc # "idle"

AllRowsCompletedAtStart ==
    \A i \in 1..Len(addresses) : FolderName(addresses[i]) \in CompletedOnDisk(start_file)

\* C1: a folder name recorded completed in the progress file a run starts
\* from gets no request in that run, and a run all of whose rows were already
\* completed ends with the total_requests it started with.
C1_Resumability ==
    /\ requested \cap CompletedOnDisk(start_file) = {}
    /\ (pc = "summary" /\ AllRowsCompletedAtStart)
          => progress_data.total_requests = RequestsOnDisk(start_file)

C1_Witness ==
    /\ pc = "summary"
    /\ addresses # <<>>
    /\ AllRowsCompletedAtStart
    /\ RequestsOnDisk(start_file) > 0

\* C2: at every step that raises no IOError, every folder name a restart would
\* have loaded as completed before the step is still loaded as completed after
\* it (a termination at any instant loses no completed address).
C2_FlushIsAtomic ==
    [][faults' = faults =>
         CompletedOnDisk(progress_file) \subseteq CompletedOnDisk(progress_file')]_vars

\* C3: in the persisted progress state no folder name is in both completed
\* and failed.
C3_CompletedOrFailed ==
    CompletedOnDisk(progress_file) \cap FailedOnDisk(progress_file) = {}

\* C4: a folder name in completed stays in completed and is not appended to
\* failed again: in every step of a run, from an intact progress file into the
\* run that loads it, and in every intact file a run has written.
C4_StepKeepsCompleted ==
    (Running /\ pc' # "idle") =>
        \A k \in Range(progress_data.completed) :
            /\ k \in Range(progress_data'.completed)
            /\ Count(k, progress_data'.failed) = Count(k, progress_data.failed)

C4_FileAgrees ==
    (Running /\ progress_file.state = "ok") =>
        \A k \in Range(progress_file.data.completed) :
            /\ k \in Range(progress_data.completed)
            /\ Count(k, progress_data.failed) = Count(k, progress_file.data.failed)

C4_CompletedNeverRegresses == [][C4_StepKeepsCompleted]_vars /\ []C4_FileAgrees

C4_Witness ==
    /\ pc = "scrape_property"
    /\ CurrentFolder \in Range(progress_data.completed)
    /\ CompletedOnDisk(start_file) # {}

\* The headings saved for the current address, in the order of the heading list.
SavedHeadings == SelectSeq(Headings, LAMBDA h : h \in saved_now)

C5_MarkedCompleted ==
    (pc = "update_progress" /\ pc' = "save_progress" /\ saved_now # {}) =>
        /\ progress_data'.completed = Append(progress_data.completed, CurrentFolder)
        /\ progress_data'.failed = progress_data.failed

C5_MetadataListsSaved ==
    (pc = "save_metadata" /\ pc' = "update_progress" /\ faults' = faults
       /\ saved_now # {}) =>
        metadata_files'[CurrentFolder] =
            [state |-> "ok", headings_successful |-> SavedHeadings]

\* C5: an address with at least one heading fetched and saved is appended to
\* completed and not to failed, and the metadata file written for it lists
\* exactly the headings fetched and saved.
C5_PartialSuccess == [][C5_MarkedCompleted /\ C5_MetadataListsSaved]_vars

C5_Witness ==
    /\ pc = "save_progress"
    /\ saved_now # {}
    /\ saved_now # Range(Headings)
    /\ last_outcome = "no_imagery"
    /\ CurrentFolder \in Range(progress_data.completed)
    /\ CurrentFolder \notin Range(progress_data.failed)
    /\ metadata_files[CurrentFolder] = [state |-> "ok", headings_successful |-> SavedHeadings]

\* Rows of this run whose folder name the progress file recorded failed and
\* not completed when the run started.
FailedAtStart ==
    {i \in 1..Len(addresses) :
        FolderName(addresses[i]) \in FailedOnDisk(start_file) \ CompletedOnDisk(start_file)}

\* C6: an address none of whose headings was saved is in failed and not in
\* completed once marked, and a run that reaches its summary has issued
\* requests for every row recorded failed (and not completed) at its start.
C6_FailedIsRetried ==
    /\ (pc \in {"save_progress", "dump_progress"} /\ saved_now = {})
          => /\ CurrentFolder \in Range(progress_data.failed)
             /\ CurrentFolder \notin Range(progress_data.completed)
    /\ pc = "summary"
          => \A i \in FailedAtStart : FolderName(addresses[i]) \in requested

C6_Witness ==
    /\ pc = "summary"
    /\ FailedAtStart # {}
    /\ \A i \in FailedAtStart : FolderName(addresses[i]) \in requested

\* C7: after a first, undisturbed processing of an address none of whose
\* headings was saved, its directory holds no metadata file.
C7_NoMetadataOnFailure ==
    (pc = "update_progress" /\ saved_now = {} /\ faults = 0 /\ runs = 1)
        => metadata_files[CurrentFolder].state = "none"

\* C8: a heading is never requested more than max_retries + 1 times, and a
\* _make_request that returned after a network error made exactly
\* max_retries + 1 requests and returned no image.
C8_RetryCeiling ==
    /\ attempts <= max_retries + 1
    /\ (pc # "make_request" /\ last_outcome = "network_error")
          => attempts = max_retries + 1 /\ ~image_data

C8_Witness ==
    /\ pc = "save_image"
    /\ last_outcome = "network_error"
    /\ max_retries > 0
    /\ attempts = max_retries + 1
    /\ progress_data.total_requests = 0

\* C9: after a no_imagery outcome _make_request has returned no image without
\* another request, and a retry only ever follows api_error or network_error.
C9_NoImageryNotRetried ==
    /\ last_outcome = "no_imagery" => pc # "make_request" /\ ~image_data
    /\ (pc = "make_request" /\ attempts > 0)
          => last_outcome \in {"api_error", "network_error"}

C9_Witness ==
    /\ pc = "save_image"
    /\ last_outcome = "no_imagery"
    /\ RetryAllowed(retry_count, max_retries)

\* C10: every request issued increments total_requests by one.
C10_EveryAttemptCounted ==
    [][attempts' = attempts + 1 =>
         progress_data'.total_requests = progress_data.total_requests + 1]_vars

\* The summary scrape_from_csv returns when the batch loop has ended.
Summary == GetSummary(progress_data)

\* One address on a fresh output directory, no local write failure, every
\* heading fetched and every counted request successful.
AllHeadingsSucceeded ==
    /\ pc = "summary"
    /\ runs = 1
    /\ faults = 0
    /\ start_file = MissingFile
    /\ Len(addresses) = 1
    /\ progress_data.successful_requests = Len(Headings)
    /\ progress_data.total_requests = Len(Headings)

\* C11 as stated: success_rate is the ratio successful_requests /
\* total_requests, between 0 and 1, 0 when total_requests is 0, and 1 in the
\* example where every heading of one address succeeds.
C11_SuccessRateIsRatio ==
    pc = "summary" =>
        /\ Summary.success_rate.num * Summary.total_requests
              = Summary.successful_requests * Summary.success_rate.den
        /\ Summary.success_rate.num >= 0
        /\ Summary.success_rate.num <= Summary.success_rate.den
        /\ Summary.total_requests = 0 => Summary.success_rate.num = 0
        /\ AllHeadingsSucceeded => Summary.success_rate.num = Summary.success_rate.den

\* C11, amended: success_rate is the percentage 100 * successful_requests /
\* total_requests, between 0 and 100, 0 when total_requests is 0; for one
\* address whose headings all succeed on a fresh output directory the summary
\* is total_completed 1, total_failed 0, total_requests and
\* successful_requests the number of headings, success_rate 100.
C11_SuccessRateIsPercentage ==
    pc = "summary" =>
        /\ Summary.success_rate.num * Summary.total_requests
              = 100 * Summary.successful_requests * Summary.success_rate.den
        /\ Summary.success_rate.num >= 0
        /\ Summary.success_rate.num <= 100 * Summary.success_rate.den
        /\ Summary.total_requests = 0 => Summary.success_rate.num = 0
        /\ AllHeadingsSucceeded =>
              /\ Summary.total_completed = 1
              /\ Summary.total_failed = 0
              /\ Summary.total_requests = Len(Headings)
              /\ Summary.successful_requests = Len(Headings)
              /\ Summary.success_rate.num = 100 * Summary.success_rate.den

C11_Witness ==
    /\ AllHeadingsSucceeded
    /\ Summary.total_completed = 1
    /\ Summary.success_rate = Ratio(100 * Len(Headings), Len(Headings))

NoDuplicateRows ==
    \A i, j \in 1..Len(addresses) : addresses[i] = addresses[j] => i = j

\* C12: at the summary of a run over distinct rows each folder name occurs at
\* most once in failed, and total_failed is the number of distinct failed
\* folder names.
C12_FailedIsASet ==
    (pc = "summary" /\ NoDuplicateRows) =>
        /\ \A k \in Keys : Count(k, progress_data.failed) <= 1
        /\ Summary.total_failed = Cardinality(Range(progress_data.failed))

\* C13: for every address that is not skipped the headings are requested in
\* the order of the heading list, each once (with its retries), whatever the
\* earlier headings returned: the headings requested so far are the first
\* ones of the list, and all of them once the heading loop has ended.
C13_HeadingsIndependent ==
    /\ pc = "make_request" =>
          tried = SubSeq(Headings, 1, IF attempts = 0 THEN heading_idx - 1 ELSE heading_idx)
    /\ pc = "save_image" => tried = SubSeq(Headings, 1, heading_idx)
    /\ pc \in {"save_metadata", "update_progress", "save_progress", "dump_progress"}
          => tried = Headings

C13_Witness ==
    /\ pc = "save_metadata"
    /\ Len(Headings) > 1
    /\ Headings[1] \notin saved_now
    /\ Headings[Len(Headings)] \in saved_now
    /\ tried = Headings

\* C14: a run that reaches its summary has issued requests for every row not
\* recorded completed when it started, and each such row is then in completed
\* or in failed, whatever the earlier rows came to.
C14_BatchContinues ==
    pc = "summary" =>
        \A i \in 1..Len(addresses) :
            FolderName(addresses[i]) \notin CompletedOnDisk(start_file) =>
                /\ FolderName(addresses[i]) \in requested
                /\ FolderName(addresses[i]) \in
                      Range(progress_data.completed) \cup Range(progress_data.failed)

C14_Witness ==
    /\ pc = "summary"
    /\ Len(addresses) = 2
    /\ FolderName(addresses[1]) # FolderName(addresses[2])
    /\ FolderName(addresses[1]) \in Range(progress_data.failed)
    /\ FolderName(addresses[1]) \notin Range(progress_data.completed)
    /\ FolderName(addresses[2]) \in requested
    /\ FolderName(addresses[2]) \in Range(progress_data.completed)

C15_AbortsWithoutKey ==
    (runs > 0 /\ ~api_key) =>
        /\ pc = "idle"
        /\ exit_code = 1
        /\ error = "api_key_required"
        /\ requested = {}

C15_NoSideEffect ==
    (runs' = runs + 1 /\ ~api_key') => UNCHANGED disk

\* C15: an invocation without an API key ends with exit code 1 and the
\* message that a key is required, starts no process and issues no request,
\* and leaves the output directory, the folders, the metadata files and the
\* progress file as they were.
C15_MissingCredential == []C15_AbortsWithoutKey /\ [][C15_NoSideEffect]_vars

C15_Witness ==
    /\ runs > 0
    /\ ~api_key
    /\ exit_code = 1
    /\ error = "api_key_required"
    /\ ~output_dir_exists
    /\ progress_file = MissingFile

C16_LoadStep ==
    (pc = "idle" /\ runs' = runs + 1 /\ api_key' /\ error' # "no_addresses"
       /\ progress_file.state # "ok") =>
        /\ error' = "none"
        /\ exit_code' = NoExit
        /\ pc' # "idle"
        /\ progress_data' = FreshProgress
        /\ remaining_addresses' = addresses'

StepsOfHeading == max_retries + 2
\* Steps one address takes at most.
StepsOfAddress == 1 + Len(Headings) * StepsOfHeading + 4

\* Steps the current address takes at most from here.
AddressStepsLeft ==
    CASE pc = "scrape_property" -> StepsOfAddress
      [] pc = "make_request" ->
           (Len(Headings) - heading_idx) * StepsOfHeading
             + (max_retries - retry_count + 1) + 5
      [] pc = "save_image" -> (Len(Headings) - heading_idx) * StepsOfHeading + 5
      [] pc = "save_metadata" -> 4
      [] pc = "update_progress" -> 3
      [] pc = "save_progress" -> 2
      [] pc = "dump_progress" -> 1
      [] OTHER -> 0

\* Steps the run takes at most from here.
StepsLeft ==
    CASE pc = "idle" -> 0
      [] pc = "summary" -> 1
      [] OTHER -> 1 + (Len(remaining_addresses) - idx) * StepsOfAddress + AddressStepsLeft

C17_NotStuck ==
    (Running /\ (pc = "make_request" => progress_data.total_requests < MaxRequests))
        => ENABLED ProcessStep

\* C17: a run terminates with its summary whatever the API returns: the number
\* of steps the run can still take is never negative and decreases at every
\* step of the run, and a running process always has a next step (below the
\* cap of the request counter), the last of which returns the summary.
C17_Terminates ==
    /\ []C17_NotStuck
    /\ [](StepsLeft >= 0)
    /\ [][Running => StepsLeft' < StepsLeft]_vars

C17_Witness ==
    /\ pc = "summary"
    /\ max_retries > 0
    /\ Len(remaining_addresses) = 2
    /\ Range(progress_data.failed) # {}
    /\ progress_data.total_requests > 0

UpperLetters == {"A", "B", "C"}
LowerLetters == {"a", "b", "c"}
Digits == {"0", "1", "2", "3", "4", "5", "6", "7", "8", "9"}
KeyChars == LowerLetters \cup Digits \cup {"_"}

\* The key as C18 describes it.
NormalizedKey(address) ==
    LET g1 == SelectSeq(address, LAMBDA c :
                  c \in UpperLetters \cup LowerLetters \cup Digits \cup Whitespace)
        g2 == CollapseWhitespace(g1)
        g3 == Lower(g2)
    IN  IF Len(g3) > MaxFilenameLen THEN SubSeq(g3, 1, MaxFilenameLen) ELSE g3

\* C18: the folder name is the address without the characters that are not
\* letters, digits or whitespace, each run of whitespace replaced by one
\* underscore, lowercased and truncated to 100 characters; it consists of
\* characters of [a-z0-9_] and is at most 100 long.
C18_KeyNormalization ==
    san_pc \in {"key", "rekey"} =>
        /\ san_key = NormalizedKey(san_address)
        /\ Range(san_key) \subseteq KeyChars
        /\ Len(san_key) <= MaxFilenameLen

\* C19: _sanitize_filename applied to a folder name it returned returns that
\* folder name.
C19_Idempotent == san_pc = "rekey" => san_rekey = san_key

C19_Witness ==
    /\ san_pc = "rekey"
    /\ Len(san_address) > MaxFilenameLen
    /\ Len(san_key) = MaxFilenameLen
    /\ "_" \in Range(san_key)
    /\ san_rekey = san_key

\* Folder names of the rows whose address field is empty.
EmptyAddressKeys == {FolderName(t) : t \in {u \in TargetSet : u.address = <<>>}}

\* C20: a row whose address field is empty gets no request, no directory and
\* no metadata file, and its folder name is in neither completed nor failed.
C20_EmptyAddressRejected ==
    \A k \in EmptyAddressKeys :
        /\ k \notin requested
        /\ k \notin folders
        /\ metadata_files[k].state = "none"
        /\ k \notin Range(progress_data.completed) \cup Range(progress_data.failed)

\* Whether the step changes the completed or the failed list.
MarksChanged ==
    \/ progress_data'.completed # progress_data.completed
    \/ progress_data'.failed # progress_data.failed

C21_MarkThenFlush ==
    /\ (Running /\ pc' # "idle" /\ MarksChanged)
          => pc = "update_progress" /\ pc' = "save_progress"
    /\ (pc = "update_progress" /\ pc' # "idle") => pc' = "save_progress"
    /\ (pc \in {"save_progress", "dump_progress"} /\ pc' # "idle")
          => /\ pc' \in {"dump_progress", "scrape_property", "summary"}
             /\ ~MarksChanged
             /\ attempts' # attempts + 1
             /\ progress_data'.total_requests = progress_data.total_requests

\* The step in which scrape_property returns from _save_progress.
FlushReturns ==
    /\ pc \in {"save_progress", "dump_progress"}
    /\ pc' \in {"scrape_property", "summary"}

C22_RequestAfterWait == attempts' = attempts + 1 => slept >= 1

C22_WaitAfterHeading == (pc = "save_image" /\ pc' # "idle") => slept' >= 1

\* C22 as stated: every request, the first of a run and every retry
\* included, is issued after a wait of at least rate_limit_delay since the
\* previous request.
C22_WaitThenFetch == [][C22_RequestAfterWait]_vars

\* C22, amended: for every heading the request is issued first and the wait
\* of rate_limit_delay follows it, whatever the outcome (fetch, then wait),
\* and every request but the first of a run, every retry included, is issued
\* after a wait of at least rate_limit_delay since the previous request.
C22_FetchThenWait ==
    [][/\ requested # {} => C22_RequestAfterWait
       /\ C22_WaitAfterHeading]_vars

C22_Witness ==
    /\ pc = "make_request"
    /\ retry_count > 0
    /\ attempts = retry_count
    /\ slept = RetryDelay(retry_count - 1)
    /\ slept >= 1

\* C23: a heading whose image file could not be written is not listed as
\* successful, and an address whose metadata file was not written is not
\* marked completed.
C23_WriteFailureIsFailure ==
    /\ Range(successful_images) \subseteq saved_now
    /\ (pc \in {"save_progress", "dump_progress"}
          /\ metadata_files[CurrentFolder].state # "ok")
          => CurrentFolder \notin Range(progress_data.completed)

\* C24: a folder name appended to failed in this run gets no further request
\* in this run.
C24_FailedIsTerminal ==
    pc = "make_request" =>
        Count(CurrentFolder, progress_data.failed)
          = Count(CurrentFolder, LoadProgress(start_file).failed)

\* C26: a folder name occurs at most once in completed, in the process and in
\* every intact progress file, and the summary's total_completed is the
\* number of distinct completed folder names.
C26_CompletedIsASet ==
    /\ \A k \in Keys : Count(k, progress_data.completed) <= 1
    /\ progress_file.state = "ok"
          => \A k \in Keys : Count(k, progress_file.data.completed) <= 1
    /\ pc = "summary"
          => Summary.total_completed = Cardinality(Range(progress_data.completed))

C26_Witness ==
    /\ pc = "summary"
    /\ Len(addresses) = 2
    /\ addresses[1] = addresses[2]
    /\ start_file.state = "ok"
    /\ FolderName(addresses[1]) \in requested
    /\ Count(FolderName(addresses[1]), progress_data.completed) = 1

\* C27: a folder name is appended to completed only when, in this processing
\* of the address, a request succeeded and its image file was written.
C27_CompletedNeedsSavedImage ==
    (pc \in {"save_progress", "dump_progress"}
       /\ CurrentFolder \in Range(progress_data.completed))
        => /\ saved_now # {}
           /\ progress_data.successful_requests >= Cardinality(saved_now)

C27_Witness ==
    /\ pc = "save_progress"
    /\ faults = 1
    /\ Len(tried) = Len(Headings)
    /\ progress_data.successful_requests = Len(Headings)
    /\ Cardinality(saved_now) = Len(Headings) - 1
    /\ CurrentFolder \in Range(progress_data.completed)

\* The smallest body _make_request accepts (the minimum byte threshold).
MinImageBytes == ImageSizeFloor + 1

\* C25: a response is success exactly when its status is 200, its content
\* type is an image and its body is not smaller than MinImageBytes; status 200
\* otherwise is no_imagery, another status is api_error, an exception is
\* network_error; every response gets exactly one of the four.
C25_Classification ==
    cls_pc = "done" =>
        /\ cls_outcome \in {"success", "no_imagery", "api_error", "network_error"}
        /\ cls_outcome = "success"
              <=> (~cls_response.exc /\ cls_response.status = 200 /\ cls_response.is_image
                     /\ cls_response.size >= MinImageBytes)
        /\ cls_outcome = "no_imagery"
              <=> (~cls_response.exc /\ cls_response.status = 200
                     /\ (~cls_response.is_image \/ cls_response.size < MinImageBytes))
        /\ cls_outcome = "api_error" <=> (~cls_response.exc /\ cls_response.status # 200)
        /\ cls_outcome = "network_error" <=> cls_response.exc

C25_Witness ==
    /\ cls_pc = "done"
    /\ cls_response.status = 200
    /\ cls_response.is_image
    /\ cls_response.size = ImageSizeFloor
    /\ cls_outcome = "no_imagery"

\* Admitted calls of ip whose timestamps lie in the window that starts at t.
AdmittedInWindow(ip, t) ==
    {i \in 1..Len(admitted[ip]) :
        admitted[ip][i] >= t /\ admitted[ip][i] < t + RateLimitWindow}

\* C28: for each ip, at most RATE_LIMIT_MAX_REQUESTS of the admitted calls
\* have their timestamps within one window of RATE_LIMIT_WINDOW_SECONDS.
C28_RateLimit ==
    \A ip \in IPs, t \in 0..MaxClock :
        Cardinality(AdmittedInWindow(ip, t)) <= RateLimitMaxRequests

AllDone == \A r \in 1..MaxCalls : handler[r].pc \in {"new", "done"}

\* C29: once all requests have finished, every door of every request that
\* was answered with success is in the stored list.
C29_NoLostUpdate ==
    AllDone =>
        \A r \in 1..MaxCalls :
            handler[r].status = 200 =>
                \A k \in 1..handler[r].doors :
                    \E i \in 1..Len(garage_doors) :
                        garage_doors[i].request = r /\ garage_doors[i].door = k

\* C30: no two stored entries have the same id.
C30_UniqueIds ==
    \A i, j \in 1..Len(garage_doors) :
        garage_doors[i].id = garage_doors[j].id => i = j

====
